---- MODULE Spec2Model ----
(***************************************************************************)
(* SafePointer<T> (src/safeptr.hpp): an owning buffer over malloc / calloc *)
(* / realloc / free.  The model keeps the three fields of every instance,  *)
(* the allocator's heap (one entry per allocation ever made), and a record *)
(* of the last call made on an instance.                                   *)
(***************************************************************************)
EXTENDS Integers, Sequences, FiniteSets, TLC

\* ------------------------------------------------------------- bounds
MaxRegions == 2       \* allocations the allocator can ever hand out
MaxN == 2             \* largest ordinary element count passed to a call
WordBits == 3         \* width of size_t in the model (64 in the build)
SizeofT == 2          \* sizeof(T), in bytes

Inst == {1, 2}       \* the two instances of one scope
Regions == 1..MaxRegions
NullPtr == 0
Values == {0, 1}      \* element values; 0 is the all-zero-bytes value

RECURSIVE Pow2(_)
Pow2(k) == IF k = 0 THEN 1 ELSE 2 * Pow2(k - 1)
SizeMod == Pow2(WordBits)
\* the element count whose byte size wraps around size_t
BigN == SizeMod \div SizeofT
Sizes == (0..MaxN) \cup {BigN}
MaxElems == (SizeMod - 1) \div SizeofT
Min(a, b) == IF a < b THEN a ELSE b

\* size * sizeof(T), in size_t arithmetic
Bytes(n) == (n * SizeofT) % SizeMod
\* whole elements of T that fit in a region of so many bytes
Elems(bytes) == bytes \div SizeofT

VARIABLES ptr_, allocated_, size_, alive, heap, last
vars == <<ptr_, allocated_, size_, alive, heap, last>>

\* ------------------------------------------------------------- allocator
Unused == [status |-> "unused", bytes |-> 0, data |-> <<>>]
Freed == [status |-> "freed", bytes |-> 0, data |-> <<>>]
LiveRegion(bytes, data) == [status |-> "live", bytes |-> bytes, data |-> data]

Live(h, p) == p # NullPtr /\ h[p].status = "live"
HasFresh(h) == \E r \in Regions : h[r].status = "unused"
Fresh(h) == CHOOSE r \in Regions : /\ h[r].status = "unused"
                                   /\ \A q \in Regions : h[q].status = "unused" => r <= q

\* What the allocator decides on one call: whether it fails, whether realloc
\* keeps the block in place or moves it, whether realloc(p, 0) frees the block,
\* and the indeterminate contents of memory it does not initialise.
Choices == [kind : {"fail", "inplace", "moved", "freed"}, junk : [1..MaxElems -> Values]]
\* the choices that differ in their effect on a request for n elements
ChoicesFn ==
    [n \in Sizes |->
        {ch \in Choices :
            /\ \A k \in 1..MaxElems : k > Elems(Bytes(n)) \/ n = 0 => ch.junk[k] = 0
            /\ ch.kind = "freed" => n # 0 /\ Bytes(n) = 0
            /\ n = 0 => ch.kind = "fail"}]
ChoicesFor(n) == ChoicesFn[n]
Junk(ch, from, to) == [k \in 1..(to - from) |-> ch.junk[from + k]]

\* A world: the instances' fields, the heap, and of the call in progress its
\* outcome and the undefined behaviour it has run into:
\*   "refree"  a region already released is passed to free or realloc
\*   "stale"   a region already released is read or written
\*   "bounds"  an element outside the region is read or written
World == [ptr |-> ptr_, allocated |-> allocated_, size |-> size_,
          heap |-> heap, ub |-> {}, res |-> "ok", ret |-> NullPtr]
Throw(w, e) == [w EXCEPT !.res = e]
Undefined(w, what) == [w EXCEPT !.ub = @ \cup {what}]

\* free(p): a no-op on null; releases a live region; undefined on a region
\* already released
free(w, p) ==
    IF p = NullPtr THEN w
    ELSE IF w.heap[p].status = "live" THEN [w EXCEPT !.heap[p] = Freed]
    ELSE Undefined(w, "refree")

\* malloc(bytes): null on failure or exhaustion; malloc(0) may return either
malloc(w, bytes, ch) ==
    IF ch.kind = "fail" \/ ~HasFresh(w.heap) THEN [w EXCEPT !.ret = NullPtr]
    ELSE LET r == Fresh(w.heap)
         IN [w EXCEPT !.heap[r] = LiveRegion(bytes, Junk(ch, 0, Elems(bytes))),
                      !.ret = r]

\* calloc(num, size): null when num * size overflows; contents all zero
calloc(w, num, size, ch) ==
    IF ch.kind = "fail" \/ ~HasFresh(w.heap) \/ num * size >= SizeMod
    THEN [w EXCEPT !.ret = NullPtr]
    ELSE LET r == Fresh(w.heap)
         IN [w EXCEPT !.heap[r] = LiveRegion(num * size,
                                             [k \in 1..Elems(num * size) |-> 0]),
                      !.ret = r]

\* the first Elems(bytes) elements of old contents, the rest indeterminate
Resized(data, bytes, ch) ==
    LET keep == Min(Len(data), Elems(bytes))
    IN SubSeq(data, 1, keep) \o Junk(ch, keep, Elems(bytes))

\* realloc(p, bytes): malloc when p is null; on failure the old block stays;
\* with bytes = 0 the block may also be released and null returned; on a
\* block already released the call is undefined
realloc(w, p, bytes, ch) ==
    IF p = NullPtr THEN malloc(w, bytes, ch)
    ELSE LET bad == w.heap[p].status # "live"
             w0 == IF bad THEN Undefined(w, "refree") ELSE w
             old == w.heap[p].data
         IN CASE ch.kind = "freed" /\ bytes = 0 ->
                   [free(w0, p) EXCEPT !.ret = NullPtr]
              [] ch.kind = "inplace" /\ ~bad ->
                   [w0 EXCEPT !.heap[p] = LiveRegion(bytes, Resized(old, bytes, ch)),
                              !.ret = p]
              [] ch.kind \in {"moved", "inplace"} /\ HasFresh(w.heap) ->
                   LET r == Fresh(w.heap)
                   IN [free(w0, p) EXCEPT
                          !.heap[r] = LiveRegion(bytes, Resized(old, bytes, ch)),
                          !.ret = r]
              [] OTHER -> [w0 EXCEPT !.ret = NullPtr]

\* ------------------------------------------------------------- SafePointer
RECURSIVE allocate(_, _, _, _), reallocate(_, _, _, _)

\* allocate with the flag left unset after a successful malloc
allocate_flag_unset(w, i, size, ch) ==
    IF size = 0 THEN Throw(w, "InvalidArgument")
    ELSE IF w.allocated[i] THEN reallocate(w, i, size, ch)
    ELSE LET m == malloc(w, Bytes(size), ch)
             w1 == [m EXCEPT !.ptr[i] = m.ret]
         IN IF m.ret = NullPtr THEN Throw(w1, "AllocationFailure")
            ELSE [w1 EXCEPT !.size[i] = size]

allocate(w, i, size, ch) ==
    IF size = 0 THEN Throw(w, "InvalidArgument")
    ELSE IF w.allocated[i] THEN reallocate(w, i, size, ch)
    ELSE LET m == malloc(w, Bytes(size), ch)
             w1 == [m EXCEPT !.ptr[i] = m.ret]
         IN IF m.ret = NullPtr THEN Throw(w1, "AllocationFailure")
            ELSE [w1 EXCEPT !.size[i] = size, !.allocated[i] = TRUE]

reallocate(w, i, size, ch) ==
    IF size = 0 THEN Throw(w, "InvalidArgument")
    ELSE IF ~w.allocated[i] THEN allocate(w, i, size, ch)
    ELSE LET m == realloc(w, w.ptr[i], Bytes(size), ch)
         IN IF m.ret = NullPtr THEN Throw(m, "ReallocationFailure")
            ELSE [m EXCEPT !.size[i] = size, !.ptr[i] = m.ret]

deallocate(w, i) ==
    IF w.allocated[i]
    THEN [free(w, w.ptr[i]) EXCEPT !.ptr[i] = NullPtr,
                                   !.allocated[i] = FALSE,
                                   !.size[i] = 0]
    ELSE w

callocate(w, i, num, size, ch) ==
    IF num = 0 \/ size = 0 THEN Throw(w, "InvalidArgument")
    ELSE LET w0 == IF w.allocated[i] THEN deallocate(w, i) ELSE w
             m == calloc(w0, num, size, ch)
             w1 == [m EXCEPT !.ptr[i] = m.ret]
         IN IF m.ret = NullPtr THEN Throw(w1, "AllocationFailure")
            ELSE [w1 EXCEPT !.size[i] = num, !.allocated[i] = TRUE]

\* clear that leaves size_ as it was when it does not deallocate
clear_size_kept(w, i, doDeallocate) ==
    IF doDeallocate THEN deallocate(w, i)
    ELSE [w EXCEPT !.ptr[i] = NullPtr]

clear(w, i, doDeallocate) ==
    IF doDeallocate THEN deallocate(w, i)
    ELSE [w EXCEPT !.ptr[i] = NullPtr, !.size[i] = 0]

resize(w, i, size, ch) ==
    IF size = w.size[i] THEN w
    ELSE IF size = 0 THEN deallocate(w, i)
    ELSE reallocate(w, i, size, ch)

\* the elements of region p, none when p is null or released
Data(w, p) == IF Live(w.heap, p) THEN w.heap[p].data ELSE <<>>
\* what an access to n elements at p runs into
Access(w, p, n) ==
    IF n = 0 THEN w
    ELSE IF p # NullPtr /\ w.heap[p].status = "freed" THEN Undefined(w, "stale")
    ELSE IF n > Len(Data(w, p)) THEN Undefined(w, "bounds")
    ELSE w

\* std::fill(ptr, ptr + n, value): writing outside a live region is undefined
stdfill(w, p, n, value) ==
    LET len == Len(Data(w, p))
        w0 == Access(w, p, n)
    IN IF len = 0 THEN w0
       ELSE [w0 EXCEPT !.heap[p].data =
                [k \in 1..len |-> IF k <= n THEN value ELSE w.heap[p].data[k]]]

\* std::copy(src, src + n, dst): reading or writing outside a live region is
\* undefined; an element read from outside has an indeterminate value
stdcopy(w, src, n, dst, ch) ==
    LET from == Data(w, src)
        len == Len(Data(w, dst))
        w0 == Access(Access(w, src, n), dst, n)
    IN IF len = 0 THEN w0
       ELSE [w0 EXCEPT !.heap[dst].data =
                [k \in 1..len |-> IF k > n THEN w.heap[dst].data[k]
                                  ELSE IF k <= Len(from) THEN from[k]
                                  ELSE ch.junk[k]]]

fill(w, i, value) ==
    IF ~w.allocated[i] \/ w.ptr[i] = NullPtr THEN Throw(w, "NotAllocated")
    ELSE stdfill(w, w.ptr[i], w.size[i], value)

\* swap that exchanges the pointers and the flags and leaves the counts
swap_size_kept(w, i, j) ==
    [w EXCEPT !.ptr[i] = w.ptr[j], !.ptr[j] = w.ptr[i],
              !.allocated[i] = w.allocated[j], !.allocated[j] = w.allocated[i]]

swap(w, i, j) ==
    [w EXCEPT !.ptr[i] = w.ptr[j], !.ptr[j] = w.ptr[i],
              !.allocated[i] = w.allocated[j], !.allocated[j] = w.allocated[i],
              !.size[i] = w.size[j], !.size[j] = w.size[i]]

set(w, i, p) ==
    LET w0 == IF w.allocated[i] THEN deallocate(w, i) ELSE w
    IN [w0 EXCEPT !.ptr[i] = p, !.allocated[i] = (p # NullPtr)]

copy(w, i, j, size, ch) ==
    IF ~w.allocated[j] THEN Throw(w, "NotAllocated")
    ELSE LET w1 == allocate(w, i, size, ch)
         IN IF w1.res # "ok" THEN w1
            ELSE stdcopy(w1, w1.ptr[j], size, w1.ptr[i], ch)

\* move without the test for this == &other
move_unguarded(w, i, j) ==
    LET w1 == deallocate(w, i)
    IN [w1 EXCEPT !.ptr[i] = w1.ptr[j],
                  !.allocated[i] = w1.allocated[j],
                  !.ptr[j] = NullPtr,
                  !.allocated[j] = FALSE,
                  !.size[j] = 0]

move(w, i, j) ==
    IF i # j
    THEN LET w1 == deallocate(w, i)
         IN [w1 EXCEPT !.ptr[i] = w1.ptr[j],
                       !.allocated[i] = w1.allocated[j],
                       !.ptr[j] = NullPtr,
                       !.allocated[j] = FALSE,
                       !.size[j] = 0]
    ELSE w

\* operator=
assign(w, i, j, ch) ==
    IF i = j THEN w
    ELSE LET w1 == deallocate(w, i)
             w2 == allocate(w1, i, w1.size[j], ch)
         IN IF w2.res # "ok" THEN w2
            ELSE stdcopy(w2, w2.ptr[j], w2.size[j], w2.ptr[i], ch)

\* compare: the two instances hold the same address
compare(w, i, j) == w.ptr[i] = w.ptr[j]

\* clone, with its local new_sptr in the slot j of the object it returns.
\* "return new_sptr" may construct the result in place (elided) or copy
\* new_sptr member by member into the result and then destroy new_sptr; the
\* class declares no copy constructor, so the copy is the implicit one.
clone(w, i, j, ch, elided) ==
    LET w0 == [w EXCEPT !.ptr[j] = NullPtr, !.allocated[j] = FALSE]
        w1 == allocate(w0, j, w.size[i], ch)
        w2 == stdcopy(w1, w1.ptr[i], w1.size[i], w1.ptr[j], ch)
    IN IF w1.res # "ok" THEN [w EXCEPT !.res = w1.res]
       ELSE IF elided THEN w2
       ELSE [free(w2, w2.ptr[j]) EXCEPT !.ret = w2.ret]

\* ptr_[idx] = value: writing outside a live region is undefined
set_value(w, i, value, idx) ==
    IF ~w.allocated[i] \/ w.ptr[i] = NullPtr THEN Throw(w, "NotAllocated")
    ELSE LET p == w.ptr[i]
             len == Len(Data(w, p))
         IN IF w.heap[p].status = "freed" THEN Undefined(w, "stale")
            ELSE IF idx >= len THEN Undefined(w, "bounds")
            ELSE [w EXCEPT !.heap[p].data[idx + 1] = value]

\* set_values(src_begin, src_end, dst_begin) with the source span src and
\* dst_begin = ptr_ + d; isNull: one of the three pointers is null.  dst_count
\* is computed in size_t.
set_values(w, i, src, d, isNull) ==
    IF ~w.allocated[i] \/ w.ptr[i] = NullPtr THEN Throw(w, "NotAllocated")
    ELSE IF isNull THEN Throw(w, "InvalidArgument")
    ELSE LET src_count == Len(src)
             dst_count == (w.size[i] - d) % SizeMod
             p == w.ptr[i]
             len == Len(Data(w, p))
         IN IF src_count > dst_count THEN Throw(w, "InvalidArgument")
            ELSE IF src_count = 0 THEN w
            ELSE IF w.heap[p].status = "freed" THEN Undefined(w, "stale")
            ELSE LET w0 == IF d + src_count > len THEN Undefined(w, "bounds") ELSE w
                 IN [w0 EXCEPT !.heap[p].data =
                        [k \in 1..len |-> IF k > d /\ k <= d + src_count
                                          THEN src[k - d] ELSE w.heap[p].data[k]]]

\* get_values(dst_begin): copies [begin(), end()) into the caller's buffer
get_values(w, i, isNull) ==
    IF ~w.allocated[i] \/ w.ptr[i] = NullPtr THEN Throw(w, "NotAllocated")
    ELSE IF isNull THEN Throw(w, "InvalidArgument")
    ELSE Access(w, w.ptr[i], w.size[i])

\* ------------------------------------------------------------- actions
\* The record of a call: which operation, on which instance, its arguments, its
\* outcome (res), what its last allocator call returned (ret), the undefined
\* behaviour it ran into, and the fields and heap as they were when it was made.
Idle == [op |-> "idle", self |-> 0, other |-> 0, n |-> 0, flag |-> FALSE, res |-> "ok",
         ret |-> NullPtr, ub |-> {}, pre |-> <<>>]
Call(op, i, j, n, flag) ==
    [op |-> op, self |-> i, other |-> j, n |-> n, flag |-> flag, res |-> "ok",
     ret |-> NullPtr, ub |-> {},
     pre |-> [ptr |-> ptr_, allocated |-> allocated_, size |-> size_, heap |-> heap]]

Commit(w, call) ==
    /\ ptr_' = w.ptr
    /\ allocated_' = w.allocated
    /\ size_' = w.size
    /\ heap' = w.heap
    /\ last' = [call EXCEPT !.res = w.res, !.ret = w.ret, !.ub = w.ub]

\* the caller may call instance i
Ready(i) == alive[i] /\ last.op = "idle"

\* The allocator's choices on a call for n elements on instance i: realloc keeps
\* a block in place, or releases it, only when it is given a block.
ChoicesAt(i, n) ==
    {ch \in ChoicesFor(n) :
        ch.kind \in {"inplace", "freed"} => allocated_[i] /\ ptr_[i] # NullPtr}
MallocChoices(n) == {ch \in ChoicesFor(n) : ch.kind \in {"fail", "moved"}}

Allocate(i) ==
    /\ Ready(i)
    /\ \E n \in Sizes : \E ch \in ChoicesAt(i, n) :
          Commit(allocate(World, i, n, ch), Call("allocate", i, 0, n, FALSE))
    /\ UNCHANGED alive

Callocate(i) ==
    /\ Ready(i)
    /\ \E num \in Sizes, size \in 0..SizeofT :
       \E kind \in IF num = 0 \/ size = 0 THEN {"fail"} ELSE {"fail", "moved"} :
          Commit(callocate(World, i, num, size, [kind |-> kind]),
                 Call("callocate", i, size, num, FALSE))
    /\ UNCHANGED alive

Reallocate(i) ==
    /\ Ready(i)
    /\ \E n \in Sizes : \E ch \in ChoicesAt(i, n) :
          Commit(reallocate(World, i, n, ch), Call("reallocate", i, 0, n, FALSE))
    /\ UNCHANGED alive

Deallocate(i) ==
    /\ Ready(i)
    /\ Commit(deallocate(World, i), Call("deallocate", i, 0, 0, FALSE))
    /\ UNCHANGED alive

Clear(i) ==
    /\ Ready(i)
    /\ \E doDeallocate \in BOOLEAN :
          Commit(clear(World, i, doDeallocate), Call("clear", i, 0, 0, doDeallocate))
    /\ UNCHANGED alive

Resize(i) ==
    /\ Ready(i)
    /\ \E n \in Sizes : \E ch \in ChoicesAt(i, n) :
          Commit(resize(World, i, n, ch), Call("resize", i, 0, n, FALSE))
    /\ UNCHANGED alive

Fill(i) ==
    /\ Ready(i)
    /\ \E v \in Values : Commit(fill(World, i, v), Call("fill", i, 0, v, FALSE))
    /\ UNCHANGED alive

Swap(i) ==
    /\ Ready(i)
    /\ \E j \in Inst : alive[j] /\ Commit(swap(World, i, j), Call("swap", i, j, 0, FALSE))
    /\ UNCHANGED alive

\* set(p) with p null or the value get() returns on a live instance
SetGot(i) ==
    /\ Ready(i)
    /\ \E p \in {NullPtr} \cup {ptr_[j] : j \in {k \in Inst : alive[k]}} :
          Commit(set(World, i, p), Call("set", i, 0, p, FALSE))
    /\ UNCHANGED alive

\* set(p) with p a region the caller has just obtained from malloc
SetFresh(i) ==
    /\ Ready(i)
    /\ HasFresh(heap)
    /\ \E n \in 1..MaxN : \E ch \in {c \in MallocChoices(n) : c.kind = "moved"} :
          LET m == malloc(World, Bytes(n), ch)
          IN Commit(set(m, i, m.ret), Call("set", i, 0, m.ret, TRUE))
    /\ UNCHANGED alive

Copy(i) ==
    /\ Ready(i)
    /\ \E j \in Inst : \E n \in Sizes : \E ch \in ChoicesAt(i, n) :
          alive[j] /\ Commit(copy(World, i, j, n, ch), Call("copy", i, j, n, FALSE))
    /\ UNCHANGED alive

Move(i) ==
    /\ Ready(i)
    /\ \E j \in Inst : alive[j] /\ Commit(move(World, i, j), Call("move", i, j, 0, FALSE))
    /\ UNCHANGED alive

Assign(i) ==
    /\ Ready(i)
    /\ \E j \in Inst : \E ch \in MallocChoices(size_[j]) :
          alive[j] /\ Commit(assign(World, i, j, ch), Call("assign", i, j, 0, FALSE))
    /\ UNCHANGED alive

\* c = x.clone(), c constructed where a destroyed object was
Clone(i) ==
    /\ Ready(i)
    /\ \E j \in Inst \ {i} : \E ch \in MallocChoices(size_[i]) : \E elided \in BOOLEAN :
          /\ ~alive[j]
          /\ Commit(clone(World, i, j, ch, elided), Call("clone", i, j, 0, elided))
          /\ alive' = [alive EXCEPT ![j] = last'.res = "ok"]

SetValue(i) ==
    /\ Ready(i)
    /\ \E value \in Values : \E idx \in 0..MaxN :
          Commit(set_value(World, i, value, idx), Call("set_value", i, idx, value, FALSE))
    /\ UNCHANGED alive

\* the source spans and destination offsets the caller passes to set_values
Spans == UNION {[1..s -> Values] : s \in 0..MaxN}
Offsets == 0..(MaxN + 1)
SetValues(i) ==
    /\ Ready(i)
    /\ \E src \in Spans : \E d \in Offsets : \E isNull \in BOOLEAN :
          Commit(set_values(World, i, src, d, isNull),
                 Call("set_values", i, d, Len(src), isNull))
    /\ UNCHANGED alive

GetValues(i) ==
    /\ Ready(i)
    /\ \E isNull \in BOOLEAN :
          Commit(get_values(World, i, isNull), Call("get_values", i, 0, 0, isNull))
    /\ UNCHANGED alive

\* ~SafePointer: deallocate(), after which the object's fields no longer exist
Gone(w, i) == [w EXCEPT !.ptr[i] = NullPtr, !.allocated[i] = FALSE, !.size[i] = 0]
Destroy(i) ==
    /\ Ready(i)
    /\ Commit(Gone(deallocate(World, i), i), Call("destroy", i, 0, 0, FALSE))
    /\ alive' = [alive EXCEPT ![i] = FALSE]

\* the call has returned or thrown; the caller goes on
Return ==
    /\ last.op # "idle"
    /\ last' = Idle
    /\ UNCHANGED <<ptr_, allocated_, size_, alive, heap>>

\* SafePointer() = default initialises ptr_ and allocated_ and leaves size_
\* indeterminate
Init ==
    /\ ptr_ = [i \in Inst |-> NullPtr]
    /\ allocated_ = [i \in Inst |-> FALSE]
    /\ size_ \in [Inst -> Sizes]
    /\ alive = [i \in Inst |-> TRUE]
    /\ heap = [r \in Regions |-> Unused]
    /\ last = Idle

Next ==
    \/ \E i \in Inst :
          \/ Allocate(i)
          \/ Callocate(i)
          \/ Reallocate(i)
          \/ Deallocate(i)
          \/ Clear(i)
          \/ Resize(i)
          \/ Fill(i)
          \/ Swap(i)
          \/ SetGot(i)
          \/ SetFresh(i)
          \/ Copy(i)
          \/ Move(i)
          \/ Assign(i)
          \/ Clone(i)
          \/ SetValue(i)
          \/ SetValues(i)
          \/ GetValues(i)
          \/ Destroy(i)
    \/ Return

Spec == Init /\ [][Next]_vars

\* The callers that give set() only null or a region they have just obtained
\* from malloc, never an address an instance holds.
SetNull(i) ==
    /\ Ready(i)
    /\ Commit(set(World, i, NullPtr), Call("set", i, 0, NullPtr, FALSE))
    /\ UNCHANGED alive

NextFresh ==
    \/ \E i \in Inst :
          \/ Allocate(i)
          \/ Callocate(i)
          \/ Reallocate(i)
          \/ Deallocate(i)
          \/ Clear(i)
          \/ Resize(i)
          \/ Fill(i)
          \/ Swap(i)
          \/ SetNull(i)
          \/ SetFresh(i)
          \/ Copy(i)
          \/ Move(i)
          \/ Assign(i)
          \/ Clone(i)
          \/ SetValue(i)
          \/ SetValues(i)
          \/ GetValues(i)
          \/ Destroy(i)
    \/ Return

SpecFresh == Init /\ [][NextFresh]_vars

\* ------------------------------------------------------------- properties
\* the instance the last call was made on, and its argument instance
Self == last.self
Other == last.other
Pre == last.pre
\* instance i owned a live region when the last call was made
Owned(i) == Pre.allocated[i] /\ Live(Pre.heap, Pre.ptr[i])
\* the fields of instance i are what they were when the last call was made
SameFields(i) ==
    /\ ptr_[i] = Pre.ptr[i]
    /\ allocated_[i] = Pre.allocated[i]
    /\ size_[i] = Pre.size[i]
\* instance i reports nothing held
Empty(i) == ~allocated_[i] /\ size_[i] = 0 /\ ptr_[i] = NullPtr

\* C1: no region is returned to the allocator more than once, and no two
\* instances own the same region at any time.
C1_ExclusiveOwnership ==
    /\ "refree" \notin last.ub
    /\ \A a, b \in Inst :
          a # b /\ alive[a] /\ alive[b] /\ allocated_[a] /\ allocated_[b]
                /\ ptr_[a] # NullPtr => ptr_[a] # ptr_[b]

\* C2: once every instance is destroyed, every region acquired or adopted has
\* been returned to the allocator.
C2_NoLeak ==
    (\A i \in Inst : ~alive[i]) => \A r \in Regions : heap[r].status # "live"

\* C3: an instance that is not allocated has no data and count 0, in every
\* state from default construction on.
C3_UnallocatedIsEmpty ==
    \A i \in Inst : alive[i] /\ ~allocated_[i] => ptr_[i] = NullPtr /\ size_[i] = 0

\* C4: an allocated instance with count > 0 refers to a live region of at least
\* count * sizeof(T) bytes; stated for the state callocate(num, size) leaves
\* when it succeeds with num > 0 and size > 0.
Capacity(i) ==
    allocated_[i] /\ size_[i] > 0 =>
        Live(heap, ptr_[i]) /\ heap[ptr_[i]].bytes >= size_[i] * SizeofT
C4_CapacityAfterCallocate ==
    last.op = "callocate" /\ last.res = "ok" => Capacity(Self)

\* C5: dst.move(src), src owning region R with k elements: src is left empty,
\* dst is the owner of R with count k and the same elements, and the region dst
\* owned before is released.
C5_MoveTransfers ==
    last.op = "move" /\ Self # Other /\ Owned(Other) =>
        LET R == Pre.ptr[Other]
        IN /\ Empty(Other)
           /\ ptr_[Self] = R /\ allocated_[Self]
           /\ size_[Self] = Pre.size[Other]
           /\ Live(heap, R) /\ heap[R].data = Pre.heap[R].data
           /\ Owned(Self) /\ Pre.ptr[Self] # R => heap[Pre.ptr[Self]].status = "freed"

\* C6: resize(0) does what release() does: the instance is left empty and the
\* region it owned is released; stated for the calls made on an instance whose
\* allocated flag is set.
C6_ResizeZeroReleases ==
    last.op = "resize" /\ last.n = 0 /\ Pre.allocated[Self] =>
        /\ Empty(Self)
        /\ Owned(Self) => heap[Pre.ptr[Self]].status = "freed"

\* C7: allocate(0) fails with InvalidArgument; allocate(n), n > 0, whose
\* allocator call returns a region leaves the instance allocated with count n
\* and that region as its data.
C7_AllocatePostcondition ==
    last.op = "allocate" =>
        /\ last.n = 0 => last.res = "InvalidArgument"
        /\ last.n > 0 /\ last.ret # NullPtr =>
              /\ last.res = "ok"
              /\ allocated_[Self] /\ size_[Self] = last.n /\ ptr_[Self] = last.ret
C7_AllocatedFromDetached ==
    /\ last.op = "allocate" /\ last.n > 0 /\ last.ret # NullPtr
    /\ Pre.allocated[Self] /\ Pre.ptr[Self] = NullPtr
    /\ allocated_[Self] /\ size_[Self] = last.n /\ Live(heap, ptr_[Self])

\* C8: release() never fails and leaves the instance empty; on an instance
\* already released it changes no field and calls the allocator for nothing.
C8_ReleaseIdempotent ==
    last.op = "deallocate" =>
        /\ last.res = "ok"
        /\ Empty(Self)
        /\ ~Pre.allocated[Self] => SameFields(Self) /\ heap = Pre.heap

\* C9: a reallocate(n), n > 0, that fails on an instance owning a region leaves
\* the instance and its region as they were; an allocate(n) that fails on an
\* instance that was empty leaves it empty.
C9_FailureLeavesState ==
    /\ last.op = "reallocate" /\ last.n > 0 /\ Owned(Self)
          /\ last.res = "ReallocationFailure" =>
             SameFields(Self) /\ heap = Pre.heap
    /\ last.op = "allocate" /\ ~Pre.allocated[Self]
          /\ last.res = "AllocationFailure" => Empty(Self)

\* C10: on an instance owning a region, clear(false) leaves allocated set,
\* count 0 and no data, and releases nothing; clear(true) leaves the instance
\* empty and releases exactly that region.
C10_ClearPostcondition ==
    last.op = "clear" /\ Owned(Self) =>
        /\ last.res = "ok" /\ size_[Self] = 0 /\ ptr_[Self] = NullPtr
        /\ last.flag => ~allocated_[Self]
                        /\ heap = [Pre.heap EXCEPT ![Pre.ptr[Self]] = Freed]
        /\ ~last.flag => allocated_[Self] /\ heap = Pre.heap
C10_ClearedWithoutRelease ==
    /\ last.op = "clear" /\ ~last.flag /\ Owned(Self)
    /\ allocated_[Self] /\ ptr_[Self] = NullPtr
    /\ Live(heap, Pre.ptr[Self])

\* instance i owned a live region holding at least its count of elements when
\* the last call was made
HoldsCount(i) == Owned(i) /\ Len(Pre.heap[Pre.ptr[i]].data) >= Pre.size[i]

\* C11: on an instance owning a region with count m, a successful resize(n),
\* n > 0 and n # m, leaves count n, allocated set and the first min(m, n)
\* elements as they were; resize(m) changes nothing.
C11_ResizePreserves ==
    last.op = "resize" /\ HoldsCount(Self) =>
        /\ last.n = Pre.size[Self] =>
              last.res = "ok" /\ SameFields(Self) /\ heap = Pre.heap
        /\ last.n > 0 /\ last.n # Pre.size[Self] /\ last.res = "ok" =>
              /\ size_[Self] = last.n /\ allocated_[Self] /\ Live(heap, ptr_[Self])
              /\ \A k \in 1..Min(Pre.size[Self], last.n) :
                    /\ k <= Len(heap[ptr_[Self]].data)
                    /\ heap[ptr_[Self]].data[k] = Pre.heap[Pre.ptr[Self]].data[k]

\* C12: clone() on an instance owning a region with count n >= 1, when its
\* allocation succeeds, returns an allocated instance with count n, a live
\* region of its own (compare is false) and the source's n elements; the
\* source's fields and region are as they were.
C12_CloneIsDeepCopy ==
    last.op = "clone" /\ HoldsCount(Self) /\ Pre.size[Self] >= 1 /\ last.res = "ok" =>
        LET n == Pre.size[Self]
            c == Other
        IN /\ alive[c] /\ allocated_[c] /\ size_[c] = n
           /\ ~compare(World, Self, c)
           /\ Live(heap, ptr_[c])
           /\ \A k \in 1..n : /\ k <= Len(heap[ptr_[c]].data)
                              /\ heap[ptr_[c]].data[k] = Pre.heap[Pre.ptr[Self]].data[k]
           /\ SameFields(Self)
           /\ heap[ptr_[Self]] = Pre.heap[ptr_[Self]]

\* C13: a.copy(b, n), a and b distinct, b owning a region with count n >= 1, a
\* in any state: when it succeeds a is allocated with count n and a live region
\* other than b's holding b's first n elements, b and its region are as they
\* were, and the region a owned is released or is still a's.
C13_CopyIsDeepCopy ==
    last.op = "copy" /\ Self # Other /\ HoldsCount(Other) /\ last.n >= 1
        /\ Pre.size[Other] = last.n /\ last.res = "ok" =>
        LET a == Self
            b == Other
        IN /\ allocated_[a] /\ size_[a] = last.n
           /\ Live(heap, ptr_[a]) /\ ptr_[a] # ptr_[b]
           /\ \A k \in 1..last.n : /\ k <= Len(heap[ptr_[a]].data)
                                   /\ heap[ptr_[a]].data[k] = Pre.heap[Pre.ptr[b]].data[k]
           /\ SameFields(b) /\ heap[ptr_[b]] = Pre.heap[ptr_[b]]
           /\ Owned(a) => ptr_[a] = Pre.ptr[a] \/ heap[Pre.ptr[a]].status = "freed"

\* C14: a = b, a and b distinct, b in any state, the allocator not failing:
\* the assignment completes, a has b's count and b's elements in a region
\* other than b's, the region a owned is released, and b is as it was.
C14_AssignIsDeepCopy ==
    last.op = "assign" /\ Self # Other /\ last.res # "AllocationFailure" =>
        LET a == Self
            b == Other
        IN /\ last.res = "ok"
           /\ size_[a] = size_[b]
           /\ \A k \in 1..size_[b] : /\ k <= Len(Data(World, ptr_[a]))
                                     /\ k <= Len(Data(World, ptr_[b]))
                                     /\ heap[ptr_[a]].data[k] = heap[ptr_[b]].data[k]
           /\ ptr_[a] # NullPtr => ptr_[a] # ptr_[b]
           /\ Owned(a) => heap[Pre.ptr[a]].status = "freed"
           /\ SameFields(b) /\ (ptr_[b] # NullPtr => heap[ptr_[b]] = Pre.heap[ptr_[b]])

\* C15: a.swap(b) in any state never fails, calls the allocator for nothing,
\* gives a the pointer, count and flag b had and b those a had, and leaves
\* every region, its status and its elements as they were.
C15_SwapExchanges ==
    last.op = "swap" =>
        LET a == Self
            b == Other
        IN /\ last.res = "ok" /\ last.ret = NullPtr /\ last.ub = {}
           /\ ptr_[a] = Pre.ptr[b] /\ size_[a] = Pre.size[b]
           /\ allocated_[a] = Pre.allocated[b]
           /\ ptr_[b] = Pre.ptr[a] /\ size_[b] = Pre.size[a]
           /\ allocated_[b] = Pre.allocated[a]
           /\ heap = Pre.heap
C15_SwappedTwoOwners ==
    /\ last.op = "swap" /\ Self # Other
    /\ Owned(Self) /\ Owned(Other) /\ Pre.ptr[Self] # Pre.ptr[Other]
    /\ Pre.size[Self] # Pre.size[Other]
    /\ ptr_[Self] = Pre.ptr[Other] /\ size_[Self] = Pre.size[Other]
    /\ ptr_[Other] = Pre.ptr[Self] /\ size_[Other] = Pre.size[Self]

\* C16: fill(v) on an instance that has data and count n leaves each of the n
\* elements equal to v, writes nowhere else, and leaves pointer, count and flag
\* as they were; on an instance with no data it fails with NotAllocated and
\* writes nothing.
C16_FillWritesCount ==
    last.op = "fill" =>
        LET p == Pre.ptr[Self]
        IN /\ Owned(Self) =>
                /\ last.res = "ok" /\ last.ub = {}
                /\ SameFields(Self) /\ Live(heap, p)
                /\ \A k \in 1..Pre.size[Self] :
                      k <= Len(heap[p].data) /\ heap[p].data[k] = last.n
           /\ ~Pre.allocated[Self] \/ p = NullPtr =>
                last.res = "NotAllocated" /\ heap = Pre.heap /\ SameFields(Self)

\* C17: set_values on an instance owning a region with count c, with non-null
\* pointers, a source span of s elements and dst_begin = data + d: when s
\* exceeds the remaining capacity (c - d, or 0 when d >= c) it fails with
\* InvalidArgument and writes nothing; when it succeeds it writes only
\* elements [d, d + s), all of them inside [0, c).
C17_SetValuesStaysInside ==
    last.op = "set_values" /\ HoldsCount(Self) /\ ~last.flag =>
        LET c == Pre.size[Self]
            d == last.other
            s == last.n
            p == Pre.ptr[Self]
            room == IF d >= c THEN 0 ELSE c - d
        IN /\ s > room => last.res = "InvalidArgument" /\ heap = Pre.heap
           /\ last.res = "ok" =>
                /\ last.ub = {}
                /\ s > 0 => d + s <= c
                /\ \A k \in 1..Len(heap[p].data) :
                      k <= d \/ k > d + s => heap[p].data[k] = Pre.heap[p].data[k]

\* C18: x.move(x) and x = x, x in any state, leave the pointer, count and flag
\* of every instance and every region as they were, and call the allocator for
\* nothing.
C18_SelfMoveSelfAssignNoOp ==
    last.op \in {"move", "assign"} /\ Self = Other =>
        /\ last.res = "ok" /\ last.ret = NullPtr /\ last.ub = {}
        /\ \A i \in Inst : SameFields(i)
        /\ heap = Pre.heap
C18_SelfMoveOfOwner ==
    /\ last.op = "move" /\ Self = Other
    /\ HoldsCount(Self) /\ Pre.size[Self] > 0
    /\ allocated_[Self] /\ Live(heap, ptr_[Self])

\* C19: a call that fails with InvalidArgument or NotAllocated leaves the
\* pointer, count and flag of the instance it was made on and every region,
\* its status and its elements, as they were.
C19_RejectedCallChangesNothing ==
    last.res \in {"InvalidArgument", "NotAllocated"} =>
        SameFields(Self) /\ heap = Pre.heap

\* C20: when set() is given only null or a region just obtained from malloc,
\* the data pointer of every instance is null or refers to a region that has
\* not been freed, and no call frees a freed region or reads or writes one.
C20_NoDanglingPointer ==
    /\ \A i \in Inst : alive[i] /\ ptr_[i] # NullPtr => heap[ptr_[i]].status # "freed"
    /\ last.ub \cap {"refree", "stale"} = {}
====
